---- MODULE Spec2Model ----
(***************************************************************************)
(* A model of logic_add.py: wires with observers, two-input gates, half    *)
(* and full adders, the ripple-carry circuit of build_circuit, the         *)
(* Converter, the bit codec to_binary / from_binary and add.               *)
(*                                                                         *)
(* Objects live in a store `st`:                                           *)
(*   st.wire      sequence of Wire objects; a wire is named by its index   *)
(*   st.converter sequence of Converter objects, named by index            *)
(*   st.trace     what the call in progress has done so far                *)
(*   st.err       the exception the call in progress has raised, or "none" *)
(* A call of Wire.set runs its whole cascade of observer updates           *)
(* depth-first before it returns, as the Python call stack does.           *)
(***************************************************************************)
EXTENDS Integers, Sequences, FiniteSets, TLC

VARIABLES
    bench,      \* which objects the caller has constructed
    lines,      \* the caller's names for the wires it holds
    wire,       \* the Wire objects
    converter,  \* the Converter objects
    trace,      \* the set calls and updates of the latest caller call
    err,        \* the exception the latest caller call ended with
    call,       \* the latest caller call of Wire.set, and what it found
    resets,     \* how many caller calls have set an already set wire
    arg,        \* arguments of the function under call (add, to_binary)
    ret         \* what the function under call has returned

vars == <<bench, lines, wire, converter, trace, err, call, resets, arg, ret>>

(***************************************************************************)
(* Bounds of the model.                                                    *)
(***************************************************************************)
MaxBits == 3        \* widest circuit / converter the benches build
MaxMisuseBits == 1  \* widest circuit a caller misuses (SpecMisuse)
MaxPairBits == 1    \* widest circuit of a pair of circuits (SpecPair)
MaxResets == 1      \* caller calls that set an already set wire
MaxInt == 8         \* add and to_binary are called on -MaxInt .. MaxInt
MaxAddBits == 3     \* add and to_binary are called with num_bits up to this

(***************************************************************************)
(* Integer helpers: Python's &, |, ^ on non-negative integers, and 2^k.    *)
(***************************************************************************)
RECURSIVE Pow2(_)
Pow2(k) == IF k <= 0 THEN 1 ELSE 2 * Pow2(k - 1)

RECURSIVE BitAnd(_, _)
BitAnd(x, y) ==
    IF x = 0 \/ y = 0 THEN 0
    ELSE 2 * BitAnd(x \div 2, y \div 2) + (IF x % 2 = 1 /\ y % 2 = 1 THEN 1 ELSE 0)

RECURSIVE BitOr(_, _)
BitOr(x, y) ==
    IF x = 0 THEN y
    ELSE IF y = 0 THEN x
    ELSE 2 * BitOr(x \div 2, y \div 2) + (IF x % 2 = 1 \/ y % 2 = 1 THEN 1 ELSE 0)

RECURSIVE BitXor(_, _)
BitXor(x, y) ==
    IF x = 0 THEN y
    ELSE IF y = 0 THEN x
    ELSE 2 * BitXor(x \div 2, y \div 2) + (IF x % 2 # y % 2 THEN 1 ELSE 0)

(***************************************************************************)
(* Observable and Wire.                                                    *)
(***************************************************************************)
EmptyStore == [wire |-> <<>>, converter |-> <<>>, trace |-> <<>>, err |-> "none"]

\* Wire(): a new wire has no __value attribute and no observers.  `sets`
\* counts the calls of set that have recorded a value on the wire.
NewWire == [is_set |-> FALSE, value |-> 0, observers |-> <<>>, sets |-> 0]

Wire(st) == [st EXCEPT !.wire = Append(@, NewWire)]

\* The name of the wire the next Wire() creates.
Fresh(st) == Len(st.wire) + 1

\* A variant that puts the new observer in front of the list.
add_observer_front(st, w, observer) ==
    [st EXCEPT !.wire[w].observers = <<observer>> \o @]

add_observer(st, w, observer) == [st EXCEPT !.wire[w].observers = Append(@, observer)]

is_set(st, w) == st.wire[w].is_set

\* A variant that only rejects negative values.
ValidValue_nonneg(value) == value >= 0

\* `assert value in [0, 1]`
ValidValue(value) == value \in {0, 1}

\* A variant in which the first value of a wire wins.
Record_first_wins(st, w, value) ==
    [st EXCEPT !.wire[w].is_set = TRUE,
               !.wire[w].value = IF st.wire[w].is_set THEN @ ELSE value,
               !.wire[w].sets = @ + 1,
               !.trace = Append(@, <<"set", w, value>>)]

\* `self.__value = value`
Record(st, w, value) ==
    [st EXCEPT !.wire[w].is_set = TRUE,
               !.wire[w].value = value,
               !.wire[w].sets = @ + 1,
               !.trace = Append(@, <<"set", w, value>>)]

(***************************************************************************)
(* Display.                                                                *)
(***************************************************************************)
\* Display.__init__: the display observes its wire.
Display(st, name, w) == add_observer(st, w, [cls |-> "Display", name |-> name, wire |-> w])

\* Display.update: prints the name and the wire's value; reading the value
\* of a wire that has none raises AttributeError.
Display_update(st, self) ==
    IF is_set(st, self.wire)
    THEN [st EXCEPT !.trace = Append(@, <<"print", self.name, st.wire[self.wire].value>>)]
    ELSE [st EXCEPT !.err = "AttributeError"]

(***************************************************************************)
(* Gates.                                                                  *)
(***************************************************************************)
\* A variant that computes OR.
AndGate_operation_or(x, y) == BitOr(x, y)

AndGate_operation(x, y) == BitAnd(x, y)

OrGate_operation(x, y) == BitOr(x, y)

XorGate_operation(x, y) == BitXor(x, y)

operation(cls, x, y) ==
    CASE cls = "AndGate" -> AndGate_operation(x, y)
      [] cls = "OrGate" -> OrGate_operation(x, y)
      [] cls = "XorGate" -> XorGate_operation(x, y)

\* DoubleInputGate.__init__: the gate observes both of its inputs.
DoubleInputGate(st, cls, input1, input2, output) ==
    LET self == [cls |-> cls, input1 |-> input1, input2 |-> input2, output |-> output]
    IN  add_observer(add_observer(st, input1, self), input2, self)

\* A variant that looks at the first input only.
GateReady_first(st, self) == is_set(st, self.input1)

\* The condition of DoubleInputGate.update.
GateReady(st, self) == is_set(st, self.input1) /\ is_set(st, self.input2)

(***************************************************************************)
(* Codec.                                                                  *)
(***************************************************************************)
\* to_binary: n & 1 is n % 2 and n >>= 1 is the floor division by 2, also
\* for negative n (Python integers shift sign-extending).
RECURSIVE to_binary_loop(_, _, _)
to_binary_loop(result, n, num_bits) ==
    IF Len(result) < num_bits
    THEN to_binary_loop(Append(result, n % 2), n \div 2, num_bits)
    ELSE result

\* A variant that encodes the magnitude of n.
to_binary_abs(n, num_bits) ==
    to_binary_loop(<<>>, IF n < 0 THEN -n ELSE n, num_bits)

\* A variant whose remainder truncates toward zero: the digits of a
\* negative n are 0 or -1.
to_binary_truncating(n, num_bits) ==
    LET mag == to_binary_loop(<<>>, IF n < 0 THEN -n ELSE n, num_bits)
    IN  [k \in 1..num_bits |-> IF n < 0 THEN -mag[k] ELSE mag[k]]

to_binary(n, num_bits) == to_binary_loop(<<>>, n, num_bits)

\* from_binary: fold over lst[::-1], result <<= 1 then result |= d.
RECURSIVE from_binary_loop(_, _, _)
from_binary_loop(result, lst, k) ==
    IF k = 0 THEN result
    ELSE from_binary_loop(BitOr(result * 2, lst[k]), lst, k - 1)

\* A variant that folds the list without reversing it.
from_binary_forward(lst) ==
    from_binary_loop(0, [k \in 1..Len(lst) |-> lst[Len(lst) + 1 - k]], Len(lst))

from_binary(lst) == from_binary_loop(0, lst, Len(lst))

(***************************************************************************)
(* Converter.                                                              *)
(***************************************************************************)
\* `computed` counts the updates that have assigned __result.
NewConverter(outputs) == [outputs |-> outputs, has_result |-> FALSE, result |-> 0,
                          has_sign |-> FALSE, sign |-> 0, computed |-> 0]

RECURSIVE ObserveAll(_, _, _, _)
ObserveAll(st, outputs, k, self) ==
    IF k > Len(outputs) THEN st
    ELSE ObserveAll(add_observer(st, outputs[k], self), outputs, k + 1, self)

\* Converter.__init__: the converter observes each wire of outputs.
Converter(st, outputs) ==
    LET id == Len(st.converter) + 1
        s1 == [st EXCEPT !.converter = Append(@, NewConverter(outputs))]
    IN  ObserveAll(s1, outputs, 1, [cls |-> "Converter", id |-> id])

AllSet(st, outputs) == \A k \in 1..Len(outputs) : is_set(st, outputs[k])

\* A variant that takes the sign from the first wire of the list.
Converter_update_first(st, id) ==
    LET outputs == st.converter[id].outputs
        binary_list == [k \in 1..Len(outputs) |-> st.wire[outputs[k]].value]
    IN  IF AllSet(st, outputs) /\ Len(outputs) > 0
        THEN [st EXCEPT !.converter[id].has_result = TRUE,
                        !.converter[id].result = from_binary(binary_list),
                        !.converter[id].computed = @ + 1,
                        !.converter[id].has_sign = TRUE,
                        !.converter[id].sign = binary_list[1]]
        ELSE st

\* Converter.update
Converter_update(st, id) ==
    LET outputs == st.converter[id].outputs
        binary_list == [k \in 1..Len(outputs) |-> st.wire[outputs[k]].value]
    IN  IF AllSet(st, outputs)
        THEN IF Len(outputs) = 0
             THEN [st EXCEPT !.converter[id].has_result = TRUE,
                             !.converter[id].result = from_binary(binary_list),
                             !.converter[id].computed = @ + 1,
                             !.err = "IndexError"]
             ELSE [st EXCEPT !.converter[id].has_result = TRUE,
                             !.converter[id].result = from_binary(binary_list),
                             !.converter[id].computed = @ + 1,
                             !.converter[id].has_sign = TRUE,
                             !.converter[id].sign = binary_list[Len(binary_list)]]
        ELSE st

(***************************************************************************)
(* Wire.set and the cascade it starts.  An exception raised anywhere in    *)
(* the cascade unwinds the whole call: once st.err is not "none" nothing   *)
(* more is done.                                                           *)
(***************************************************************************)
RECURSIVE Wire_set(_, _, _)
RECURSIVE notify_observers(_, _, _)
RECURSIVE update(_, _)

Wire_set(st, w, value) ==
    IF st.err # "none" THEN st
    ELSE IF ~ValidValue(value) THEN [st EXCEPT !.err = "AssertionError"]
    ELSE notify_observers(Record(st, w, value), w, 1)

notify_observers(st, w, k) ==
    IF st.err # "none" \/ k > Len(st.wire[w].observers) THEN st
    ELSE notify_observers(
             update([st EXCEPT !.trace = Append(@, <<"update", w, k>>)],
                    st.wire[w].observers[k]),
             w, k + 1)

\* DoubleInputGate.update.  Reading `value` of a wire that has none raises
\* AttributeError (get_value).
update(st, self) ==
    IF self.cls = "Converter" THEN Converter_update(st, self.id)
    ELSE IF self.cls = "Display" THEN Display_update(st, self)
    ELSE IF GateReady(st, self)
    THEN IF is_set(st, self.input1) /\ is_set(st, self.input2)
         THEN Wire_set(st, self.output,
                       operation(self.cls, st.wire[self.input1].value,
                                           st.wire[self.input2].value))
         ELSE [st EXCEPT !.err = "AttributeError"]
    ELSE st

(***************************************************************************)
(* Half adder, full adder and the ripple-carry circuit.                    *)
(***************************************************************************)
\* A variant with the two gates' outputs exchanged.
HalfAdder_swapped(st, input1, input2, output, carry_out) ==
    DoubleInputGate(DoubleInputGate(st, "XorGate", input1, input2, carry_out),
                    "AndGate", input1, input2, output)

\* A variant that constructs the AND gate before the XOR gate.
HalfAdder_and_first(st, input1, input2, output, carry_out) ==
    DoubleInputGate(DoubleInputGate(st, "AndGate", input1, input2, carry_out),
                    "XorGate", input1, input2, output)

HalfAdder(st, input1, input2, output, carry_out) ==
    DoubleInputGate(DoubleInputGate(st, "XorGate", input1, input2, output),
                    "AndGate", input1, input2, carry_out)

\* A variant whose second half adder takes wire2 where it should take wire1.
FullAdder_miswired(st, input1, input2, carry_in, output, carry_out) ==
    LET wire1 == Fresh(st)
        wire2 == wire1 + 1
        wire3 == wire2 + 1
        s3 == Wire(Wire(Wire(st)))
        h1 == HalfAdder(s3, input1, input2, wire1, wire2)
        h2 == HalfAdder(h1, carry_in, wire2, output, wire3)
    IN  DoubleInputGate(h2, "OrGate", wire3, wire2, carry_out)

\* A variant whose OR gate drives the sum output, which the second half
\* adder drives too.
FullAdder_two_producers(st, input1, input2, carry_in, output, carry_out) ==
    LET wire1 == Fresh(st)
        wire2 == wire1 + 1
        wire3 == wire2 + 1
        s3 == Wire(Wire(Wire(st)))
        h1 == HalfAdder(s3, input1, input2, wire1, wire2)
        h2 == HalfAdder(h1, carry_in, wire1, output, wire3)
    IN  DoubleInputGate(h2, "OrGate", wire3, wire2, output)

FullAdder(st, input1, input2, carry_in, output, carry_out) ==
    LET wire1 == Fresh(st)
        wire2 == wire1 + 1
        wire3 == wire2 + 1
        s3 == Wire(Wire(Wire(st)))
        h1 == HalfAdder(s3, input1, input2, wire1, wire2)
        h2 == HalfAdder(h1, carry_in, wire1, output, wire3)
    IN  DoubleInputGate(h2, "OrGate", wire3, wire2, carry_out)

\* A variant that leaves the first carry without a value.
FirstCarry_unset(st) == Wire(st)

\* A variant that pre-sets the first carry to 1.
FirstCarry_one(st) == Wire_set(Wire(st), Fresh(st), 1)

\* The first two statements on the carry chain: first_carry = Wire();
\* first_carry.set(0).
FirstCarry(st) == Wire_set(Wire(st), Fresh(st), 0)

\* A variant that never advances previous_carry: every adder takes the
\* first carry.
build_circuit_step_no_chain(c) ==
    LET in1 == Fresh(c.st)
        in2 == in1 + 1
        out == in2 + 1
        new_carry == out + 1
        s4 == Wire(Wire(Wire(Wire(c.st))))
        previous_carry == c.carries[1]
    IN  [st |-> FullAdder(s4, in1, in2, previous_carry, out, new_carry),
         inputs1 |-> Append(c.inputs1, in1),
         inputs2 |-> Append(c.inputs2, in2),
         outputs |-> Append(c.outputs, out),
         carries |-> Append(c.carries, new_carry)]

\* One pass of the loop of build_circuit.  c is a record of the store and
\* the lists built so far; carries is the chain of carry wires (the code
\* keeps only its last element, previous_carry).
build_circuit_step(c) ==
    LET in1 == Fresh(c.st)
        in2 == in1 + 1
        out == in2 + 1
        new_carry == out + 1
        s4 == Wire(Wire(Wire(Wire(c.st))))
        previous_carry == c.carries[Len(c.carries)]
    IN  [st |-> FullAdder(s4, in1, in2, previous_carry, out, new_carry),
         inputs1 |-> Append(c.inputs1, in1),
         inputs2 |-> Append(c.inputs2, in2),
         outputs |-> Append(c.outputs, out),
         carries |-> Append(c.carries, new_carry)]

RECURSIVE build_circuit_loop(_, _, _)
build_circuit_loop(c, i, n) ==
    IF i < n THEN build_circuit_loop(build_circuit_step(c), i + 1, n) ELSE c

\* A variant whose inputs1 list outlives the call: built after another
\* circuit, it still begins with that circuit's first input line.
build_circuit_shared_list(st, n) ==
    LET first_carry == Fresh(st)
    IN  build_circuit_loop([st |-> FirstCarry(st),
                            inputs1 |-> IF Len(st.wire) >= 2 THEN <<2>> ELSE <<>>,
                            inputs2 |-> <<>>, outputs |-> <<>>,
                            carries |-> <<first_carry>>], 0, n)

build_circuit(st, n) ==
    LET first_carry == Fresh(st)
    IN  build_circuit_loop([st |-> FirstCarry(st),
                            inputs1 |-> <<>>, inputs2 |-> <<>>, outputs |-> <<>>,
                            carries |-> <<first_carry>>], 0, n)

(***************************************************************************)
(* add.                                                                    *)
(***************************************************************************)
\* The loop of add over zip(inputs1, inputs2, to_binary(a), to_binary(b)):
\* input1.set(dig1) then input2.set(dig2), index by index.
RECURSIVE add_loop(_, _, _, _, _, _)
add_loop(st, inputs1, inputs2, digs1, digs2, i) ==
    IF i > Len(inputs1) \/ i > Len(inputs2) \/ i > Len(digs1) \/ i > Len(digs2)
    THEN st
    ELSE add_loop(Wire_set(Wire_set(st, inputs1[i], digs1[i]), inputs2[i], digs2[i]),
                  inputs1, inputs2, digs1, digs2, i + 1)

\* A variant that returns the unsigned result whatever the sign.
add_return_unsigned(r, num_bits) ==
    IF ~r.has_sign THEN [err |-> "AttributeError", value |-> 0]
    ELSE [err |-> "none", value |-> r.result]

\* The last statement of add: reading r.sign or r.result before the
\* converter has computed them raises AttributeError.
add_return(r, num_bits) ==
    IF ~r.has_sign THEN [err |-> "AttributeError", value |-> 0]
    ELSE IF r.sign = 1
    THEN [err |-> "none", value |-> -(Pow2(num_bits) - r.result)]
    ELSE [err |-> "none", value |-> r.result]

\* add(a, b, num_bits): the returned value (or the exception) and the
\* store the call leaves behind.
add(a, b, num_bits) ==
    LET c == build_circuit(EmptyStore, num_bits)
        s1 == Converter(c.st, c.outputs)
        r == Len(s1.converter)
        s2 == add_loop(s1, c.inputs1, c.inputs2,
                       to_binary(a, num_bits), to_binary(b, num_bits), 1)
        out == IF s2.err # "none" THEN [err |-> s2.err, value |-> 0]
               ELSE add_return(s2.converter[r], num_bits)
    IN  [st |-> s2, err |-> out.err, value |-> out.value]

(***************************************************************************)
(* The objects a caller constructs before it drives any wire.              *)
(***************************************************************************)
\* As add does: build_circuit(n), then a Converter on its outputs.
CircuitBench(n) ==
    LET c == build_circuit(EmptyStore, n)
    IN  [st |-> Converter(c.st, c.outputs),
         lines |-> [inputs1 |-> c.inputs1, inputs2 |-> c.inputs2,
                    outputs |-> c.outputs, carries |-> c.carries]]

\* Two circuits built by separate build_circuit calls, each with its own
\* Converter.  first_wires is the number of wires of the first circuit.
TwoCircuitsBench(n, m) ==
    LET c1 == build_circuit(EmptyStore, n)
        s1 == Converter(c1.st, c1.outputs)
        c2 == build_circuit(s1, m)
        s2 == Converter(c2.st, c2.outputs)
    IN  [st |-> s2,
         lines |-> [inputs1 |-> c1.inputs1, inputs2 |-> c1.inputs2,
                    outputs |-> c1.outputs, carries |-> c1.carries,
                    first_wires |-> Len(s1.wire),
                    other_inputs1 |-> c2.inputs1, other_inputs2 |-> c2.inputs2,
                    other_outputs |-> c2.outputs, other_carries |-> c2.carries]]

\* As the doctest of FullAdder does.
FullAdderBench ==
    LET s5 == Wire(Wire(Wire(Wire(Wire(EmptyStore)))))
    IN  [st |-> FullAdder(s5, 1, 2, 3, 4, 5),
         lines |-> [in1 |-> 1, in2 |-> 2, carry_in |-> 3, out |-> 4, carry_out |-> 5]]

\* As the doctest of HalfAdder does.
HalfAdderBench ==
    LET s4 == Wire(Wire(Wire(Wire(EmptyStore))))
    IN  [st |-> HalfAdder(s4, 1, 2, 3, 4),
         lines |-> [in1 |-> 1, in2 |-> 2, out |-> 3, carry |-> 4]]

RECURSIVE Wires(_, _)
Wires(st, k) == IF k = 0 THEN st ELSE Wires(Wire(st), k - 1)

\* As the doctest of Converter does, on k wires.
ConverterBench(k) ==
    [st |-> Converter(Wires(EmptyStore, k), [i \in 1..k |-> i]),
     lines |-> [wires |-> [i \in 1..k |-> i]]]

\* As the doctest of Wire does, with the second display registered once
\* more: a wire observed by out1, out2 and out2 again.
ObserversBench ==
    LET s1 == Wire(EmptyStore)
        s3 == Display(Display(s1, "out1", 1), "out2", 1)
    IN  [st |-> add_observer(s3, 1, [cls |-> "Display", name |-> "out2", wire |-> 1]),
         lines |-> [wire |-> 1]]

\* A gate of class cls with one wire on both of its inputs, and a display
\* on its output.
SameLineBench(cls) ==
    LET s2 == Wire(Wire(EmptyStore))
    IN  [st |-> Display(DoubleInputGate(s2, cls, 1, 1, 2), "Out", 2),
         lines |-> [in |-> 1, out |-> 2]]

Benches(max_bits) ==
    {[name |-> "build_circuit", b |-> CircuitBench(n)] : n \in 1..max_bits}
    \cup {[name |-> "FullAdder", b |-> FullAdderBench],
          [name |-> "HalfAdder", b |-> HalfAdderBench],
          [name |-> "Observers", b |-> ObserversBench]}
    \cup {[name |-> "SameLine", b |-> SameLineBench(cls)] :
              cls \in {"AndGate", "OrGate", "XorGate"}}
    \cup {[name |-> "Converter", b |-> ConverterBench(k)] : k \in 1..(max_bits + 1)}

\* The wires the caller drives.
Inputs ==
    CASE bench = "build_circuit" -> lines.inputs1 \o lines.inputs2
      [] bench = "FullAdder" -> <<lines.in1, lines.in2, lines.carry_in>>
      [] bench = "HalfAdder" -> <<lines.in1, lines.in2>>
      [] bench = "Converter" -> lines.wires
      [] bench = "Observers" -> <<lines.wire>>
      [] bench = "SameLine" -> <<lines.in>>
      [] bench = "two_circuits" ->
            lines.inputs1 \o lines.inputs2 \o lines.other_inputs1 \o lines.other_inputs2
      [] OTHER -> <<>>

InputSet == {Inputs[k] : k \in 1..Len(Inputs)}

\* Values a caller may pass to set that are not bits.
InvalidValues == {-1, 2}

NoCall == [w |-> 0, value |-> 0, was_set |-> FALSE, old |-> 0]

NoArg == [a |-> 0, b |-> 0, n |-> 0, num_bits |-> 0]

NoRet == [at |-> "none", err |-> "none", value |-> 0, binary |-> <<>>]

(***************************************************************************)
(* Spec: a caller constructs a bench and sets each of its inputs once, in  *)
(* any order.  SpecMisuse: the caller also sets wires that are already set *)
(* and passes values that are not bits.                                    *)
(***************************************************************************)
InitBench(max_bits) ==
    /\ \E x \in Benches(max_bits) :
          /\ bench = x.name
          /\ lines = x.b.lines
          /\ wire = x.b.st.wire
          /\ converter = x.b.st.converter
          /\ trace = x.b.st.trace
          /\ err = x.b.st.err
    /\ call = NoCall
    /\ resets = 0
    /\ arg = NoArg
    /\ ret = NoRet

Init == InitBench(MaxBits)

InitMisuse == InitBench(MaxMisuseBits)

\* One caller call w.set(value), run to its return (or to its exception).
CallSet(w, value) ==
    LET st == Wire_set([wire |-> wire, converter |-> converter,
                        trace |-> <<>>, err |-> "none"], w, value)
    IN  /\ wire' = st.wire
        /\ converter' = st.converter
        /\ trace' = st.trace
        /\ err' = st.err
        /\ call' = [w |-> w, value |-> value,
                    was_set |-> wire[w].is_set, old |-> wire[w].value]
        /\ UNCHANGED <<bench, lines, arg, ret>>

\* The caller sets an input that has no value yet.
Set(w, value) ==
    /\ ~wire[w].is_set
    /\ CallSet(w, value)
    /\ UNCHANGED resets

\* The caller sets an input that already has a value.
SetAgain(w, value) ==
    /\ wire[w].is_set
    /\ resets < MaxResets
    /\ CallSet(w, value)
    /\ resets' = resets + 1

\* The caller passes something that is not a bit.
SetInvalid(w, value) ==
    /\ CallSet(w, value)
    /\ UNCHANGED resets

Next == \E w \in InputSet, value \in {0, 1} : Set(w, value)

Spec == Init /\ [][Next]_vars

(***************************************************************************)
(* SpecPair: a caller builds two circuits and sets each input of either    *)
(* once, in any order.                                                     *)
(***************************************************************************)
InitPair ==
    /\ \E n \in 1..MaxPairBits, m \in 1..MaxPairBits :
          LET x == TwoCircuitsBench(n, m)
          IN  /\ bench = "two_circuits"
              /\ lines = x.lines
              /\ wire = x.st.wire
              /\ converter = x.st.converter
              /\ trace = x.st.trace
              /\ err = x.st.err
    /\ call = NoCall
    /\ resets = 0
    /\ arg = NoArg
    /\ ret = NoRet

SpecPair == InitPair /\ [][Next]_vars

NextMisuse ==
    \/ \E w \in InputSet, value \in {0, 1} : Set(w, value)
    \/ \E w \in InputSet, value \in {0, 1} : SetAgain(w, value)
    \/ \E w \in InputSet, value \in InvalidValues : SetInvalid(w, value)

SpecMisuse == InitMisuse /\ [][NextMisuse]_vars

(***************************************************************************)
(* SpecAdd: add is called on bounded arguments.                            *)
(***************************************************************************)
InitAdd ==
    /\ bench = "add"
    /\ lines = [none |-> 0]
    /\ wire = <<>>
    /\ converter = <<>>
    /\ trace = <<>>
    /\ err = "none"
    /\ call = NoCall
    /\ resets = 0
    /\ \E a \in (-MaxInt)..MaxInt, b \in (-MaxInt)..MaxInt, num_bits \in 1..MaxAddBits :
          arg = [a |-> a, b |-> b, n |-> 0, num_bits |-> num_bits]
    /\ ret = [NoRet EXCEPT !.at = "call"]

CallAdd ==
    /\ ret.at = "call"
    /\ LET r == add(arg.a, arg.b, arg.num_bits)
       IN  /\ wire' = r.st.wire
           /\ converter' = r.st.converter
           /\ trace' = r.st.trace
           /\ err' = r.err
           /\ ret' = [at |-> "returned", err |-> r.err, value |-> r.value,
                      binary |-> <<>>]
    /\ UNCHANGED <<bench, lines, call, resets, arg>>

NextAdd == CallAdd

SpecAdd == InitAdd /\ [][NextAdd]_vars

(***************************************************************************)
(* SpecCascade: the caller's set calls on a bench, on lines with or        *)
(* without a value, or a call of add.                                      *)
(***************************************************************************)
InitCascade == InitMisuse \/ InitAdd

NextCascade ==
    \/ \E w \in InputSet, value \in {0, 1} : Set(w, value)
    \/ \E w \in InputSet, value \in {0, 1} : SetAgain(w, value)
    \/ CallAdd

SpecCascade == InitCascade /\ [][NextCascade]_vars

(***************************************************************************)
(* SpecCodec: to_binary, then from_binary on its result.                   *)
(***************************************************************************)
InitCodec ==
    /\ bench = "codec"
    /\ lines = [none |-> 0]
    /\ wire = <<>>
    /\ converter = <<>>
    /\ trace = <<>>
    /\ err = "none"
    /\ call = NoCall
    /\ resets = 0
    /\ \E n \in (-MaxInt)..MaxInt, num_bits \in 0..MaxAddBits :
          arg = [a |-> 0, b |-> 0, n |-> n, num_bits |-> num_bits]
    /\ ret = [NoRet EXCEPT !.at = "call"]

CallToBinary ==
    /\ ret.at = "call"
    /\ ret' = [ret EXCEPT !.at = "encoded", !.binary = to_binary(arg.n, arg.num_bits)]
    /\ UNCHANGED <<bench, lines, wire, converter, trace, err, call, resets, arg>>

CallFromBinary ==
    /\ ret.at = "encoded"
    /\ ret' = [ret EXCEPT !.at = "decoded", !.value = from_binary(ret.binary)]
    /\ UNCHANGED <<bench, lines, wire, converter, trace, err, call, resets, arg>>

NextCodec == CallToBinary \/ CallFromBinary

SpecCodec == InitCodec /\ [][NextCodec]_vars

(***************************************************************************)
(* Properties.                                                             *)
(***************************************************************************)
AllInputsSet == \A w \in InputSet : wire[w].is_set

\* The wire the latest caller call was made on is w.
LastCallOn(w) == call.w = w

\* The value of a list of bits, least significant first, as a sum of
\* weighted bits.
RECURSIVE BitsValue(_, _)
BitsValue(lst, k) ==
    IF k > Len(lst) THEN 0 ELSE lst[k] * Pow2(k - 1) + BitsValue(lst, k + 1)

\* C1: for all integers a, b and num_bits >= 1, add(a, b, num_bits) returns
\* without an exception the integer r of
\* -2^(num_bits-1) .. 2^(num_bits-1)-1 that is congruent to a + b modulo
\* 2^num_bits.
C1_AddWraps ==
    ret.at = "returned" =>
        /\ ret.err = "none"
        /\ ret.value >= -Pow2(arg.num_bits - 1)
        /\ ret.value <= Pow2(arg.num_bits - 1) - 1
        /\ (ret.value - (arg.a + arg.b)) % Pow2(arg.num_bits) = 0

\* add has returned a negative number for two positive operands: the sum
\* wrapped around (as add(127, 128, 8) = -1 does).
C1_Witness ==
    /\ ret.at = "returned"
    /\ arg.a > 0
    /\ arg.b > 0
    /\ arg.num_bits >= 2
    /\ ret.value < 0
    /\ ret.value # arg.a + arg.b

\* C2: in a circuit of build_circuit(n) with a Converter on its outputs,
\* once each of the 2n input lines has been set once, in any order, every
\* output line is set, the converter's result and sign are readable, and no
\* gate has both inputs set and its output unset.
C2_Completion ==
    (bench = "build_circuit" /\ AllInputsSet) =>
        /\ err = "none"
        /\ \A k \in 1..Len(lines.outputs) : wire[lines.outputs[k]].is_set
        /\ converter[1].has_result
        /\ converter[1].has_sign
        /\ \A w \in 1..Len(wire) : \A k \in 1..Len(wire[w].observers) :
              LET g == wire[w].observers[k]
              IN  g.cls # "Converter" =>
                     ((wire[g.input1].is_set /\ wire[g.input2].is_set)
                          => wire[g.output].is_set)

\* A circuit of at least two bits is complete, and the last input set was
\* the first line of the first operand: not the order add uses.
C2_Witness ==
    /\ bench = "build_circuit"
    /\ Len(lines.inputs1) >= 2
    /\ AllInputsSet
    /\ LastCallOn(lines.inputs1[1])
    /\ converter[1].has_result

\* The store add's loop leaves when it drives a fresh circuit of the same
\* width with the bits the input lines now hold.
AddOrderRun ==
    LET n == Len(lines.inputs1)
    IN  add_loop(CircuitBench(n).st, lines.inputs1, lines.inputs2,
                 [i \in 1..n |-> wire[lines.inputs1[i]].value],
                 [i \in 1..n |-> wire[lines.inputs2[i]].value], 1)

\* C3: in a circuit of build_circuit(n), whatever the order in which the
\* 2n input lines were set once each, every output line holds the value,
\* and the converter the result and sign, that the alternating index order
\* of add() gives for the same operand bits.
C3_OrderIndependence ==
    (bench = "build_circuit" /\ AllInputsSet) =>
        /\ \A k \in 1..Len(lines.outputs) :
              /\ wire[lines.outputs[k]].is_set
                     = AddOrderRun.wire[lines.outputs[k]].is_set
              /\ wire[lines.outputs[k]].value
                     = AddOrderRun.wire[lines.outputs[k]].value
        /\ converter[1] = AddOrderRun.converter[1]

\* A circuit of at least two bits was driven most significant bits first
\* (the last input set is inputs1[1]) with a carry out of bit 1: the result
\* is 2 or more.
C3_Witness ==
    /\ bench = "build_circuit"
    /\ Len(lines.inputs1) >= 2
    /\ AllInputsSet
    /\ LastCallOn(lines.inputs1[1])
    /\ wire[lines.inputs1[1]].value = 1
    /\ wire[lines.inputs2[1]].value = 1
    /\ wire[lines.outputs[2]].value = 1
    /\ converter[1].result >= 2

\* C4: a Converter over a non-empty list of wires exposes neither result
\* nor sign while one of its wires is unset; once all are set, result is
\* the sum of value(wire i) * 2^i, wire 0 least significant, and sign is the
\* value of the last wire.
C4_Converter ==
    \A id \in 1..Len(converter) :
        LET outputs == converter[id].outputs
            values == [k \in 1..Len(outputs) |-> wire[outputs[k]].value]
            all_set == \A k \in 1..Len(outputs) : wire[outputs[k]].is_set
        IN  /\ Len(outputs) > 0
            /\ ~all_set => (~converter[id].has_result /\ ~converter[id].has_sign)
            /\ all_set =>
                  /\ converter[id].has_result
                  /\ converter[id].has_sign
                  /\ converter[id].result = BitsValue(values, 1)
                  /\ converter[id].sign = values[Len(values)]

\* A converter on three free wires, the first wire set last, holding
\* 0, 1, 1: result 6, sign 1.
C4_Witness ==
    /\ bench = "Converter"
    /\ Len(lines.wires) = 3
    /\ AllInputsSet
    /\ LastCallOn(lines.wires[1])
    /\ wire[lines.wires[1]].value = 0
    /\ converter[1].result = 6
    /\ converter[1].sign = 1

\* C5: to_binary(n, num_bits) is a list of exactly num_bits elements, each
\* 0 or 1, least significant first, whose unsigned value is
\* n mod 2^num_bits, for negative n and for n >= 2^num_bits too.
C5_ToBinary ==
    ret.at \in {"encoded", "decoded"} =>
        /\ Len(ret.binary) = arg.num_bits
        /\ \A k \in 1..Len(ret.binary) : ret.binary[k] \in {0, 1}
        /\ BitsValue(ret.binary, 1) = arg.n % Pow2(arg.num_bits)

\* A negative n below -2^num_bits has been encoded on two bits or more,
\* and the list has a 1 and a 0 in it.
C5_Witness ==
    /\ ret.at = "encoded"
    /\ arg.num_bits >= 2
    /\ arg.n < -Pow2(arg.num_bits)
    /\ \E k \in 1..Len(ret.binary) : ret.binary[k] = 1
    /\ \E k \in 1..Len(ret.binary) : ret.binary[k] = 0

\* C6: for every num_bits >= 0 and every v with 0 <= v < 2^num_bits,
\* from_binary(to_binary(v, num_bits)) = v; from_binary of the empty list
\* is 0.
C6_RoundTrip ==
    ret.at = "decoded" =>
        /\ (0 <= arg.n /\ arg.n < Pow2(arg.num_bits)) => ret.value = arg.n
        /\ ret.binary = <<>> => ret.value = 0

\* The list of 2^num_bits - 2 on two bits or more (not a palindrome) has
\* been decoded back.
C6_Witness ==
    /\ ret.at = "decoded"
    /\ arg.num_bits >= 2
    /\ arg.n = Pow2(arg.num_bits) - 2
    /\ ret.binary[1] = 0
    /\ ret.value > 0

\* C7: for all x, y, c in {0,1} and every order in which the two input
\* lines and the carry-in line of a full adder are each set once, after the
\* third set returns the sum and carry-out lines are both set and
\* sum + 2 * carry_out = x + y + c.
C7_FullAdder ==
    (bench = "FullAdder" /\ AllInputsSet) =>
        /\ err = "none"
        /\ wire[lines.out].is_set
        /\ wire[lines.carry_out].is_set
        /\ wire[lines.out].value + 2 * wire[lines.carry_out].value
               = wire[lines.in1].value + wire[lines.in2].value
                     + wire[lines.carry_in].value

\* All three lines of a full adder hold 1, in1 was set last, and the sum
\* and the carry-out are both 1.
C7_Witness ==
    /\ bench = "FullAdder"
    /\ AllInputsSet
    /\ LastCallOn(lines.in1)
    /\ wire[lines.in2].value = 1
    /\ wire[lines.carry_in].value = 1
    /\ wire[lines.out].value = 1
    /\ wire[lines.carry_out].value = 1

\* C8: for all x, y in {0,1} and either order of setting the two input
\* lines of a half adder once each, after the second set returns the sum
\* line holds x XOR y and the carry line x AND y; after only the first set
\* both outputs are still unset.
C8_HalfAdder ==
    bench = "HalfAdder" =>
        LET x == wire[lines.in1].value
            y == wire[lines.in2].value
        IN  /\ AllInputsSet =>
                  /\ wire[lines.out].is_set
                  /\ wire[lines.carry].is_set
                  /\ wire[lines.out].value = (IF x = y THEN 0 ELSE 1)
                  /\ wire[lines.carry].value = (IF x = 1 /\ y = 1 THEN 1 ELSE 0)
            /\ ~AllInputsSet =>
                  (~wire[lines.out].is_set /\ ~wire[lines.carry].is_set)

\* A half adder whose in2 was set before in1, both to 1: sum 0, carry 1.
C8_Witness ==
    /\ bench = "HalfAdder"
    /\ AllInputsSet
    /\ LastCallOn(lines.in1)
    /\ wire[lines.in1].value = 1
    /\ wire[lines.in2].value = 1
    /\ wire[lines.out].value = 0
    /\ wire[lines.carry].value = 1

\* C9: a call of Wire.set with a value that is not 0 or 1 fails with an
\* error; it leaves every wire (the line's value and is_set status
\* included) and every converter as they were, and notifies no observer.
C9_InvalidValue ==
    [][call'.value \notin {0, 1} =>
          /\ err' = "AssertionError"
          /\ wire' = wire
          /\ converter' = converter
          /\ trace' = <<>>]_vars

\* set(2) has failed on the unset in1 of a half adder whose in2 is set: a
\* valid value would have set both outputs.
C9_Witness ==
    /\ bench = "HalfAdder"
    /\ call.w = lines.in1
    /\ call.value = 2
    /\ err = "AssertionError"
    /\ wire[lines.in2].is_set
    /\ ~wire[lines.in1].is_set
    /\ ~wire[lines.out].is_set

\* The observers of wire w were each updated once, in the latest call, on
\* w's notification.
NotifiedOnce(w) ==
    \A k \in 1..Len(wire[w].observers) :
        Cardinality({i \in 1..Len(trace) : trace[i] = <<"update", w, k>>}) = 1

Places(e) == {i \in 1..Len(trace) : trace[i] = e}

\* C11: each Wire.set call first records the value and then, before it
\* returns, invokes the update of every registered observer once per
\* registration, in registration order; an observer registered twice on a
\* line is invoked twice per set.
C11_NotifyInOrder ==
    (call # NoCall /\ call.value \in {0, 1}) =>
        /\ err = "none"
        /\ Len(trace) > 0
        /\ trace[1] = <<"set", call.w, call.value>>
        /\ \A k \in 1..Len(wire[call.w].observers) :
              Cardinality(Places(<<"update", call.w, k>>)) = 1
        /\ \A k1, k2 \in 1..Len(wire[call.w].observers) :
              k1 < k2 =>
                 \A i \in Places(<<"update", call.w, k1>>) :
                    \A j \in Places(<<"update", call.w, k2>>) : i < j
        /\ \A i \in 1..Len(trace) :
              (trace[i][1] = "set" /\ Len(wire[trace[i][2]].observers) > 0) =>
                  (i < Len(trace) /\ trace[i + 1] = <<"update", trace[i][2], 1>>)
        /\ bench = "Observers" =>
              trace = << <<"set", lines.wire, call.value>>,
                         <<"update", lines.wire, 1>>, <<"print", "out1", call.value>>,
                         <<"update", lines.wire, 2>>, <<"print", "out2", call.value>>,
                         <<"update", lines.wire, 3>>, <<"print", "out2", call.value>> >>

\* The wire observed by out1, out2 and out2 again has been set to 1 and
\* out2 has printed it twice.
C11_Witness ==
    /\ bench = "Observers"
    /\ call.w = lines.wire
    /\ call.value = 1
    /\ Cardinality(Places(<<"print", "out2", 1>>)) = 2
    /\ Cardinality(Places(<<"print", "out1", 1>>)) = 1

Elements(seq) == {seq[k] : k \in 1..Len(seq)}

\* The lines of the first circuit of the pair: the ones build_circuit
\* returned and the ones it created.  Those of the second circuit.
FirstLines ==
    Elements(lines.inputs1) \cup Elements(lines.inputs2) \cup Elements(lines.outputs)
        \cup 1..lines.first_wires

SecondLines ==
    Elements(lines.other_inputs1) \cup Elements(lines.other_inputs2)
        \cup Elements(lines.other_outputs) \cup (lines.first_wires + 1)..Len(wire)

\* C12: of two circuits built by separate build_circuit calls, each with
\* its own Converter, a set call on an input line of one leaves every line
\* of the other (value, is_set status, number of sets) and the other's
\* converter unchanged.
C12_Isolation ==
    [][/\ call'.w \in Elements(lines.other_inputs1 \o lines.other_inputs2) =>
            /\ \A w \in FirstLines : wire'[w] = wire[w]
            /\ converter'[1] = converter[1]
       /\ call'.w \in Elements(lines.inputs1 \o lines.inputs2) =>
            /\ \A w \in SecondLines : wire'[w] = wire[w]
            /\ converter'[2] = converter[2]]_vars

\* The first circuit is complete with result 1, the second has just been
\* completed with a different result, and the first still reads 1.
C12_Witness ==
    /\ bench = "two_circuits"
    /\ AllInputsSet
    /\ call.w \in Elements(lines.other_inputs1 \o lines.other_inputs2)
    /\ converter[1].has_result
    /\ converter[1].result = 1
    /\ converter[2].has_result
    /\ converter[2].result = 0
    /\ converter[1].computed = 1

\* C13: in a circuit of build_circuit(n) whose 2n input lines are each set
\* once by the caller, in any order, no line receives a second set call:
\* every line that is set has received exactly one, an unset line none, and
\* once all inputs are set every line of the circuit (inputs, the three
\* internal wires of each full adder, all n+1 carries, outputs) has
\* received exactly one, the initial carry's being the pre-set to 0.  So a
\* value, once set, never changes.
C13_SingleAssignment ==
    [][bench = "build_circuit" =>
          /\ \A w \in 1..Len(wire) :
                /\ wire'[w].sets = (IF wire'[w].is_set THEN 1 ELSE 0)
                /\ wire[w].is_set =>
                      (wire'[w].is_set /\ wire'[w].value = wire[w].value)
          /\ Len(wire') = 1 + 7 * Len(lines.inputs1)
          /\ wire'[lines.carries[1]].sets = 1
          /\ wire'[lines.carries[1]].value = 0
          /\ (\A w \in InputSet : wire'[w].is_set) =>
                \A w \in 1..Len(wire) : wire'[w].sets = 1]_vars

\* A circuit of at least two bits is complete; its last carry and the
\* internal wires have been set, each once.
C13_Witness ==
    /\ bench = "build_circuit"
    /\ Len(lines.inputs1) >= 2
    /\ AllInputsSet
    /\ \A w \in 1..Len(wire) : wire[w].sets = 1
    /\ wire[lines.carries[Len(lines.carries)]].value = 1

GateClasses == {"AndGate", "OrGate", "XorGate"}

\* The truth tables of the three gates.
TruthTable(cls, x, y) ==
    CASE cls = "AndGate" -> IF x = 1 /\ y = 1 THEN 1 ELSE 0
      [] cls = "OrGate" -> IF x = 1 \/ y = 1 THEN 1 ELSE 0
      [] cls = "XorGate" -> IF x # y THEN 1 ELSE 0

\* Within a step: whether wire w is set just before event i of the call's
\* trace, and the value it then holds.
SetBefore(w, i) ==
    wire[w].is_set \/ \E j \in 1..(i - 1) : trace'[j][1] = "set" /\ trace'[j][2] = w

ValueBefore(w, i) ==
    LET js == {j \in 1..(i - 1) : trace'[j][1] = "set" /\ trace'[j][2] = w}
    IN  IF js = {} THEN wire[w].value
        ELSE trace'[CHOOSE j \in js : \A j2 \in js : j2 <= j][3]

\* C14: on a notification a gate calls set on its output if and only if
\* both of its inputs are set at that moment, with the value of its truth
\* table on the inputs' values; a notification while an input is unset
\* does nothing and raises no error; every set call other than the
\* caller's is made by such a gate.  So in every state, mid-cascade too, a
\* gate-driven line that is set has both of its gate's inputs set.
C14_GateReadiness ==
    [][call'.value \in {0, 1} =>
          /\ err' = "none"
          /\ \A i \in 1..Len(trace') :
                trace'[i][1] = "update" =>
                   LET g == wire[trace'[i][2]].observers[trace'[i][3]]
                   IN  g.cls \in GateClasses =>
                          IF SetBefore(g.input1, i) /\ SetBefore(g.input2, i)
                          THEN /\ i < Len(trace')
                               /\ trace'[i + 1]
                                     = <<"set", g.output,
                                         TruthTable(g.cls, ValueBefore(g.input1, i),
                                                    ValueBefore(g.input2, i))>>
                          ELSE i = Len(trace') \/ trace'[i + 1][1] # "set"
          /\ \A i \in 2..Len(trace') :
                trace'[i][1] = "set" =>
                   /\ trace'[i - 1][1] = "update"
                   /\ wire[trace'[i - 1][2]].observers[trace'[i - 1][3]].cls \in GateClasses
          /\ \A w \in 1..Len(wire) : \A k \in 1..Len(wire[w].observers) :
                LET g == wire[w].observers[k]
                IN  (g.cls \in GateClasses /\ wire'[g.output].is_set) =>
                       (wire'[g.input1].is_set /\ wire'[g.input2].is_set)]_vars

\* In a full adder whose in1 and carry_in hold 1, in2 was set last, to 1:
\* the AND gate of the first half adder was notified once with in2 unset
\* (when in1 was set) and has now set its output to 1.
C14_Witness ==
    /\ bench = "FullAdder"
    /\ AllInputsSet
    /\ LastCallOn(lines.in2)
    /\ wire[lines.in1].value = 1
    /\ wire[lines.in2].value = 1
    /\ wire[lines.carry_in].value = 1
    /\ wire[lines.carry_out].value = 1
    /\ \E i \in 1..Len(trace) : trace[i][1] = "set" /\ trace[i][2] = lines.carry_out

\* C15: a gate sets its output line at most once: whatever set calls are
\* made on its input lines (an input set again, or one line wired to both
\* inputs), a notification that arrives when the output is already set
\* does not set it again, so the output's observers are notified once.
C15_GateSetsOnce ==
    \A w \in 1..Len(wire) : \A k \in 1..Len(wire[w].observers) :
        LET g == wire[w].observers[k]
        IN  g.cls \in GateClasses =>
               /\ wire[g.output].sets <= 1
               /\ Cardinality({i \in 1..Len(trace) :
                                  trace[i][1] = "set" /\ trace[i][2] = g.output}) <= 1

\* Both operand input lines of every index up to i are set.
DrivenUpTo(i) ==
    \A j \in 1..i : wire[lines.inputs1[j]].is_set /\ wire[lines.inputs2[j]].is_set

\* C16: in a circuit of build_circuit(n) whose input lines are each set at
\* most once, whenever no set call is in progress output line i is set if
\* and only if both input lines of every index 0..i are set; no set call
\* has raised an error, and the converter's result and sign are readable
\* only when all inputs are set.  An input line never driven thus leaves
\* the outputs from its index on unset.
C16_Dormancy ==
    bench = "build_circuit" =>
        /\ err = "none"
        /\ \A i \in 1..Len(lines.outputs) :
              wire[lines.outputs[i]].is_set <=> DrivenUpTo(i)
        /\ converter[1].has_result <=> AllInputsSet
        /\ converter[1].has_sign <=> AllInputsSet

\* Every input of a circuit of at least two bits is set except the first
\* line of the first operand: no output is set and the converter has no
\* result.
C16_Witness ==
    /\ bench = "build_circuit"
    /\ Len(lines.inputs1) >= 2
    /\ \A w \in InputSet \ {lines.inputs1[1]} : wire[w].is_set
    /\ ~wire[lines.inputs1[1]].is_set
    /\ \A i \in 1..Len(lines.outputs) : ~wire[lines.outputs[i]].is_set
    /\ ~converter[1].has_result

\* The bits adder i adds: its two operand lines and carry line i.
AdderSum(i) ==
    wire[lines.inputs1[i]].value + wire[lines.inputs2[i]].value
        + wire[lines.carries[i]].value

AdderInputsSet(i) ==
    /\ wire[lines.inputs1[i]].is_set
    /\ wire[lines.inputs2[i]].is_set
    /\ wire[lines.carries[i]].is_set

\* C17: build_circuit(n) sets the first carry line to 0 before any gate
\* observes it and before an input is driven (the pre-set is the only
\* event of the construction: no gate reacts to it); adder i takes carry
\* line i and drives carry line i+1: a set carry line i+1 holds 1 exactly
\* when in1[i] + in2[i] + carry[i] >= 2 and a set output line i holds
\* (in1[i] + in2[i] + carry[i]) mod 2; the last carry line has no observer.
C17_RippleCarry ==
    bench = "build_circuit" =>
        LET n == Len(lines.inputs1)
        IN  /\ Len(lines.carries) = n + 1
            /\ call = NoCall =>
                  /\ trace = << <<"set", lines.carries[1], 0>> >>
                  /\ \A w \in InputSet : ~wire[w].is_set
            /\ wire[lines.carries[1]].is_set
            /\ wire[lines.carries[1]].value = 0
            /\ wire[lines.carries[1]].sets = 1
            /\ \A i \in 1..n :
                  /\ Len(wire[lines.carries[i]].observers) = 2
                  /\ \A k \in 1..2 :
                        /\ wire[lines.carries[i]].observers[k].cls \in GateClasses
                        /\ wire[lines.carries[i]].observers[k].input1 = lines.carries[i]
                  /\ wire[lines.carries[i + 1]].is_set =>
                        /\ AdderInputsSet(i)
                        /\ wire[lines.carries[i + 1]].value
                               = (IF AdderSum(i) >= 2 THEN 1 ELSE 0)
                  /\ wire[lines.outputs[i]].is_set =>
                        /\ AdderInputsSet(i)
                        /\ wire[lines.outputs[i]].value = AdderSum(i) % 2
            /\ wire[lines.carries[n + 1]].observers = <<>>

\* In a complete circuit of at least two bits the carry out of bit 0 is 1,
\* bit 1 adds 0 + 0 + that carry (output 1, carry 0), and the last carry
\* line is set.
C17_Witness ==
    /\ bench = "build_circuit"
    /\ Len(lines.inputs1) >= 2
    /\ AllInputsSet
    /\ wire[lines.carries[2]].value = 1
    /\ wire[lines.inputs1[2]].value = 0
    /\ wire[lines.inputs2[2]].value = 0
    /\ wire[lines.outputs[2]].value = 1
    /\ wire[lines.carries[3]].value = 0
    /\ wire[lines.carries[Len(lines.carries)]].is_set

\* Within a step: the places in the call's trace where wire w is set.
SetPlaces(w) == {i \in 1..Len(trace') : trace'[i][1] = "set" /\ trace'[i][2] = w}

\* C18: in a circuit of build_circuit(n), for every order in which the 2n
\* input lines are set once each, the sum output of full adder i is set
\* before that adder's carry-out and output line i before output line i+1;
\* the converter computes its result exactly once, in the cascade that
\* sets output line n-1.
C18_SettlingOrder ==
    [][bench = "build_circuit" =>
          LET n == Len(lines.outputs)
          IN  /\ \A i \in 1..n :
                    /\ wire'[lines.carries[i + 1]].is_set => wire'[lines.outputs[i]].is_set
                    /\ \A p \in SetPlaces(lines.outputs[i]) :
                          \A q \in SetPlaces(lines.carries[i + 1]) : p < q
              /\ \A i \in 1..(n - 1) :
                    /\ wire'[lines.outputs[i + 1]].is_set => wire'[lines.outputs[i]].is_set
                    /\ \A p \in SetPlaces(lines.outputs[i]) :
                          \A q \in SetPlaces(lines.outputs[i + 1]) : p < q
              /\ converter'[1].computed
                     = (IF wire'[lines.outputs[n]].is_set THEN 1 ELSE 0)
              /\ converter'[1].computed # converter[1].computed =>
                    SetPlaces(lines.outputs[n]) # {}]_vars

\* The last call set the first input line of a circuit of at least two
\* bits and its cascade set outputs 0 and 1 and the carry between them.
C18_Witness ==
    /\ bench = "build_circuit"
    /\ Len(lines.inputs1) >= 2
    /\ LastCallOn(lines.inputs1[1])
    /\ Cardinality({i \in 1..Len(trace) : trace[i][1] = "set"
                       /\ trace[i][2] \in {lines.outputs[1], lines.carries[2],
                                           lines.outputs[2]}}) = 3
    /\ converter[1].computed = (IF Len(lines.inputs1) = 2 THEN 1 ELSE 0)

\* No wire is set twice and no registration is updated twice in the trace.
NoRepeat ==
    \A i, j \in 1..Len(trace) :
        (i < j /\ trace[i][1] = trace[j][1] /\ trace[i][2] = trace[j][2]) =>
            (trace[i][1] = "update" /\ trace[i][3] # trace[j][3])

\* The number of observer registrations in the store.
RECURSIVE Registrations(_)
Registrations(w) ==
    IF w = 0 THEN 0 ELSE Len(wire[w].observers) + Registrations(w - 1)

\* Every cascade is finite: the last call raised nothing, set each wire
\* at most twice and updated each registration at most twice.
CascadeBounded ==
    /\ err = "none"
    /\ \A i \in 1..Len(trace) :
          Cardinality({j \in 1..Len(trace) :
                          /\ trace[j][1] = trace[i][1]
                          /\ trace[j][2] = trace[i][2]
                          /\ trace[i][1] = "update" => trace[j][3] = trace[i][3]})
             <= 2
    /\ Len(trace) <= 2 * (Len(wire) + Registrations(Len(wire)))

\* C19: every caller set call on a line of a circuit of build_circuit(n)
\* returns after finitely many notifications and nested set calls, in
\* every state (lines with or without a value) and driving order, and its
\* cascade reaches no line and no observer registration twice.  Every
\* add(a, b, num_bits) that has returned has raised nothing, and its whole
\* run (the construction and the 2n set calls) reached no line and no
\* registration twice.
C19_Termination ==
    /\ bench = "build_circuit" =>
          /\ CascadeBounded
          /\ NoRepeat
    /\ (bench = "add" /\ ret.at = "returned") =>
          /\ ret.err = "none"
          /\ NoRepeat
          /\ Len(trace) <= Len(wire) + Registrations(Len(wire))

\* C20: during add(a, b, num_bits), for negative operands too, every value
\* passed to Wire.set (the operand bits, the carry set at construction and
\* every gate result) is 0 or 1: the assertion of Wire.set never fails,
\* every recorded set passed 0 or 1, every wire of the circuit has been set
\* when add returns, and every set wire holds 0 or 1.
C20_ValueDomain ==
    /\ err # "AssertionError"
    /\ ret.err # "AssertionError"
    /\ \A i \in 1..Len(trace) :
          trace[i][1] = "set" => trace[i][3] \in {0, 1}
    /\ \A w \in 1..Len(wire) : wire[w].is_set => wire[w].value \in {0, 1}
    /\ (bench = "add" /\ ret.at = "returned") =>
          /\ ret.err = "none"
          /\ \A w \in 1..Len(wire) :
                /\ wire[w].is_set
                /\ \E i \in 1..Len(trace) : trace[i] = <<"set", w, wire[w].value>>

\* add has returned from two negative operands on three bits or more, and
\* both a 0 and a 1 were passed to Wire.set.
C20_Witness ==
    /\ bench = "add"
    /\ ret.at = "returned"
    /\ arg.a < 0
    /\ arg.b < 0
    /\ arg.num_bits >= 3
    /\ Len(wire) = 1 + 7 * arg.num_bits
    /\ \E i, j \in 1..Len(trace) :
          /\ trace[i][1] = "set" /\ trace[i][3] = 0
          /\ trace[j][1] = "set" /\ trace[j][3] = 1

====
